---- MODULE Spec2Model ----
(***************************************************************************)
(* Model of load_zip_codes_to_mongo.py: three tab-separated files (Spain,  *)
(* US, Canada) are read row by row, each row is mapped to a document by    *)
(* the country's mapper, and the documents are bulk-inserted in batches    *)
(* into the country's collection, which is dropped first.                  *)
(*                                                                         *)
(* A cell is the sequence of its characters, a row a sequence of cells, a  *)
(* file a sequence of rows (what csv.reader yields).  A document is a      *)
(* record of field values; a field value is one of None, a string, a float *)
(* or an int, all written in one record shape so that they compare.        *)
(***************************************************************************)
EXTENDS Integers, Sequences, FiniteSets, TLC

\* ------------------------------------------------------------------------
\* Bounds of the model

\* Stands for the batch threshold of process_file, which is 10000 in the
\* code (line 72); scaled down so that a file can cross it.
BatchLimit == 2

\* Longest input file, in rows.
MaxRows == 3

\* ------------------------------------------------------------------------
\* Characters and cells

DigitChars == <<"0", "1", "2", "3", "4", "5", "6", "7", "8", "9">>

Digits == {DigitChars[k] : k \in 1..10}

Letters == {"a", "b", "c", "f", "i", "n", "t", "y"}

Whitespace == {" "}

DigitVal(c) == (CHOOSE k \in 1..10 : DigitChars[k] = c) - 1

\* str.isalpha(): non-empty and every character alphabetic
isalpha(s) == s # <<>> /\ \A k \in 1..Len(s) : s[k] \in Letters

\* str.isdigit(): non-empty and every character a digit
isdigit(s) == s # <<>> /\ \A k \in 1..Len(s) : s[k] \in Digits

RECURSIVE LStrip(_)
LStrip(s) == IF s # <<>> /\ Head(s) \in Whitespace THEN LStrip(Tail(s)) ELSE s

RECURSIVE RStrip(_)
RStrip(s) ==
    IF s # <<>> /\ s[Len(s)] \in Whitespace
    THEN RStrip(SubSeq(s, 1, Len(s) - 1))
    ELSE s

\* float() and int() ignore leading and trailing whitespace
Strip(s) == RStrip(LStrip(s))

RECURSIVE DigitsValue(_)
DigitsValue(s) ==
    IF s = <<>> THEN 0
    ELSE 10 * DigitsValue(SubSeq(s, 1, Len(s) - 1)) + DigitVal(s[Len(s)])

AllDigits(s) == \A k \in 1..Len(s) : s[k] \in Digits

\* ------------------------------------------------------------------------
\* Field values

None == [t |-> "none", s |-> <<>>, n |-> 0, d |-> 0]

Str(c) == [t |-> "str", s |-> c, n |-> 0, d |-> 0]

\* the float n / 10^d, with no trailing zero in the fraction
RECURSIVE Float(_, _)
Float(n, d) ==
    IF d > 0 /\ n % 10 = 0 THEN Float(n \div 10, d - 1)
    ELSE [t |-> "float", s |-> <<>>, n |-> n, d |-> d]

\* nan, inf and -inf
FloatSpecial(name) == [t |-> "float", s |-> name, n |-> 0, d |-> 0]

IntVal(n) == [t |-> "int", s |-> <<>>, n |-> n, d |-> 0]

\* a conversion that raised ValueError
Invalid == [t |-> "ValueError", s |-> <<>>, n |-> 0, d |-> 0]

\* ------------------------------------------------------------------------
\* float(s) and int(s) on a cell.  The cells of the model hold no exponent
\* ("1e5"), no underscore ("1_0") and no upper-case letter, so those parts of
\* Python's grammar are left out of the parsers.

HasSign(s) == s # <<>> /\ Head(s) \in {"+", "-"}

Unsigned(s) == IF HasSign(s) THEN Tail(s) ELSE s

SignOf(s) == IF s # <<>> /\ Head(s) = "-" THEN -1 ELSE 1

DotPositions(b) == {k \in 1..Len(b) : b[k] = "."}

\* where the fraction starts: after the point, or after the end
DotIndex(b, dots) == IF dots = {} THEN Len(b) + 1 ELSE CHOOSE k \in dots : TRUE

SpecialNames ==
    {<<"n", "a", "n">>, <<"i", "n", "f">>,
     <<"i", "n", "f", "i", "n", "i", "t", "y">>}

SpecialFloat(sg, b) ==
    IF b = <<"n", "a", "n">> THEN FloatSpecial(b)
    ELSE IF sg = -1 THEN FloatSpecial(<<"-", "i", "n", "f">>)
    ELSE FloatSpecial(<<"i", "n", "f">>)

\* digits, a point, digits: at least one digit in all
DecimalParts(sg, ip, fp) ==
    IF AllDigits(ip) /\ AllDigits(fp) /\ Len(ip) + Len(fp) >= 1
    THEN Float(sg * DigitsValue(ip \o fp), Len(fp))
    ELSE Invalid

DecimalFloat(sg, b, dots) ==
    IF Cardinality(dots) > 1 THEN Invalid
    ELSE DecimalParts(sg, SubSeq(b, 1, DotIndex(b, dots) - 1),
                      SubSeq(b, DotIndex(b, dots) + 1, Len(b)))

FloatOfBody(sg, b) ==
    IF b \in SpecialNames THEN SpecialFloat(sg, b)
    ELSE DecimalFloat(sg, b, DotPositions(b))

FloatOfStripped(s) == FloatOfBody(SignOf(s), Unsigned(s))

PyFloat(cell) == FloatOfStripped(Strip(cell))

IntOfBody(sg, b) ==
    IF b # <<>> /\ AllDigits(b) THEN IntVal(sg * DigitsValue(b)) ELSE Invalid

IntOfStripped(s) == IntOfBody(SignOf(s), Unsigned(s))

PyInt(cell) == IntOfStripped(Strip(cell))

\* float(c) if c else None
OptFloat(c) == IF c # <<>> THEN PyFloat(c) ELSE None

\* int(c) if c else None
OptInt(c) == IF c # <<>> THEN PyInt(c) ELSE None

\* c if c else None
OptStr(c) == IF c # <<>> THEN Str(c) ELSE None

\* ------------------------------------------------------------------------
\* The mappers.  A mapper either returns a document or raises; the Canada
\* mapper also says whether it printed its warning.

\* row[k] with Python's index, from 0
Cell(row, k) == row[k + 1]

NoDoc == [none |-> TRUE]

Returned(d, w) == [exc |-> "none", doc |-> d, warn |-> w]

Raised(e) == [exc |-> e, doc |-> NoDoc, warn |-> FALSE]

\* NumericEntries with a slip: an accuracy that does not parse is left absent
\* instead of raising
NumericEntriesLenient(n, lat, lon, acc, d) ==
    IF n < 10 THEN Raised("IndexError")
    ELSE IF lat = Invalid THEN Raised("ValueError")
    ELSE IF n < 11 THEN Raised("IndexError")
    ELSE IF lon = Invalid THEN Raised("ValueError")
    ELSE IF n < 12 THEN Raised("IndexError")
    ELSE Returned(d @@ [latitude |-> lat, longitude |-> lon,
                        accuracy |-> IF acc = Invalid THEN None ELSE acc],
                  FALSE)

\* The three numeric entries of the dict literal of map_es_fields and
\* map_us_fields, evaluated in order: the first index out of range or the first
\* failing conversion leaves the function.  n is len(row), d holds the entries
\* before them.
NumericEntries(n, lat, lon, acc, d) ==
    IF n < 10 THEN Raised("IndexError")
    ELSE IF lat = Invalid THEN Raised("ValueError")
    ELSE IF n < 11 THEN Raised("IndexError")
    ELSE IF lon = Invalid THEN Raised("ValueError")
    ELSE IF n < 12 THEN Raised("IndexError")
    ELSE IF acc = Invalid THEN Raised("ValueError")
    ELSE Returned(d @@ [latitude |-> lat, longitude |-> lon, accuracy |-> acc],
                  FALSE)

NumericFields(row, d) ==
    NumericEntries(Len(row), OptFloat(Cell(row, 9)), OptFloat(Cell(row, 10)),
                   OptInt(Cell(row, 11)), d)

map_es_fields(row) ==
    IF Len(row) < 9 THEN Raised("IndexError")
    ELSE NumericFields(row,
            [country_code |-> Str(Cell(row, 0)),
             postal_code |-> Str(Cell(row, 1)),
             place_name |-> Str(Cell(row, 2)),
             admin1_name |-> Str(Cell(row, 3)),
             admin1_code |-> Str(Cell(row, 4)),
             admin2_name |-> Str(Cell(row, 5)),
             admin2_code |-> Str(Cell(row, 6)),
             admin3_name |-> OptStr(Cell(row, 7)),
             admin3_code |-> OptStr(Cell(row, 8))])

\* map_us_fields with a slip: postal_code and place_name from each other's cell
map_us_fields_swapped(row) ==
    IF Len(row) < 7 THEN Raised("IndexError")
    ELSE NumericFields(row,
            [country_code |-> Str(Cell(row, 0)),
             postal_code |-> Str(Cell(row, 2)),
             place_name |-> Str(Cell(row, 1)),
             admin1_name |-> Str(Cell(row, 3)),
             admin1_code |-> Str(Cell(row, 4)),
             admin2_name |-> Str(Cell(row, 5)),
             admin2_code |-> Str(Cell(row, 6))])

map_us_fields(row) ==
    IF Len(row) < 7 THEN Raised("IndexError")
    ELSE NumericFields(row,
            [country_code |-> Str(Cell(row, 0)),
             postal_code |-> Str(Cell(row, 1)),
             place_name |-> Str(Cell(row, 2)),
             admin1_name |-> Str(Cell(row, 3)),
             admin1_code |-> Str(Cell(row, 4)),
             admin2_name |-> Str(Cell(row, 5)),
             admin2_code |-> Str(Cell(row, 6))])

\* The try block of map_ca_fields_flexible: three assignments in order; the
\* first failing conversion is caught, the warning is printed, and the
\* assignments made before it stay.
CaAssign(d, lat, lon, acc) ==
    IF lat = Invalid THEN Returned(d, TRUE)
    ELSE IF lon = Invalid THEN Returned([d EXCEPT !.latitude = lat], TRUE)
    ELSE IF acc = Invalid
    THEN Returned([d EXCEPT !.latitude = lat, !.longitude = lon], TRUE)
    ELSE Returned([d EXCEPT !.latitude = lat, !.longitude = lon,
                            !.accuracy = acc], FALSE)

CaNumbers(d, a, b, c) == CaAssign(d, OptFloat(a), OptFloat(b), OptInt(c))

\* lines 135-161: the layout is chosen by len(row)
CaLayout(row, doc0) ==
    IF Len(row) = 10
    THEN CaNumbers([doc0 EXCEPT !.admin2_name = OptStr(Cell(row, 5)),
                                !.admin2_code = OptStr(Cell(row, 6))],
                   Cell(row, 7), Cell(row, 8), Cell(row, 9))
    ELSE IF Len(row) = 12
    THEN CaNumbers([doc0 EXCEPT !.admin2_name = OptStr(Cell(row, 5)),
                                !.admin2_code = OptStr(Cell(row, 6)),
                                !.admin3_name = OptStr(Cell(row, 7)),
                                !.admin3_code = OptStr(Cell(row, 8))],
                   Cell(row, 9), Cell(row, 10), Cell(row, 11))
    ELSE Raised("ValueError")

map_ca_fields_flexible(row) ==
    IF Len(row) < 3 THEN Raised("IndexError")
    ELSE CaLayout(row,
            [country_code |-> Str(Cell(row, 0)),
             postal_code |-> Str(Cell(row, 1)),
             place_name |-> Str(Cell(row, 2)),
             admin1_name |-> IF Len(row) > 3 THEN OptStr(Cell(row, 3)) ELSE None,
             admin1_code |-> IF Len(row) > 4 THEN OptStr(Cell(row, 4)) ELSE None,
             admin2_name |-> None,
             admin2_code |-> None,
             admin3_name |-> None,
             admin3_code |-> None,
             latitude |-> None,
             longitude |-> None,
             accuracy |-> None])

\* ------------------------------------------------------------------------
\* The three calls of process_file in __main__, in their order

Countries == <<"ES", "US", "CA">>

CountrySet == {Countries[k] : k \in 1..Len(Countries)}

\* expected_columns_list with a slip: 11 cells accepted too
expected_columns_wide(c) == IF c = "CA" THEN {10, 11, 12} ELSE {11, 12}

\* expected_columns_list of the country's call
expected_columns_list(c) == IF c = "CA" THEN {10, 12} ELSE {12}

\* field_mapper_func of the country's call
field_mapper_func(c, row) ==
    IF c = "ES" THEN map_es_fields(row)
    ELSE IF c = "US" THEN map_us_fields(row)
    ELSE map_ca_fields_flexible(row)

\* any(s.isalpha() for s in row) and not any(s.isdigit() for s in row[:2])
is_likely_header(row) ==
    /\ \E k \in 1..Len(row) : isalpha(row[k])
    /\ ~ \E k \in 1..Len(row) : k <= 2 /\ isdigit(row[k])

\* ------------------------------------------------------------------------
\* State

VARIABLES
    files,            \* country -> the input file: whether it exists, its rows
    db,               \* country -> the documents of its collection, in order
    run,              \* "first" or "second" run of the program on these files
    pc,               \* where the program is
    idx,              \* which call of process_file __main__ is at (1..3)
    i,                \* process_file: rows read so far
    row,              \* process_file: the last row read
    doc,              \* process_file: the last document a mapper returned
    documents,        \* process_file: the pending batch
    processed_count,  \* process_file
    skipped_count,    \* process_file
    log,              \* the kind of message the last step printed
    db0,              \* history: db when this run started
    called,           \* history: the countries process_file was called for
    drops,            \* history: country -> collection.drop() calls of this run
    writes,           \* history: country -> the batches insert_many wrote
    mapper_calls,     \* history: calls of the mapper for the current file
    outcome,          \* history: country -> how its process_file call returned
    reported,         \* history: country -> the count of "Inserted N documents"
    cause             \* history: the call that raised, when the run stopped

vars ==
    <<files, db, run, pc, idx, i, row, doc, documents, processed_count,
      skipped_count, log, db0, called, drops, writes, mapper_calls, outcome,
      reported, cause>>

locals == <<i, row, doc, documents, processed_count, skipped_count>>

NoFile == [exists |-> FALSE, rows |-> <<>>]

File(rows) == [exists |-> TRUE, rows |-> rows]

\* the country of the current call of process_file
cur == Countries[idx]

\* ------------------------------------------------------------------------
\* ConnectFail with a slip: the handler prints and does not exit
ConnectFailGoesOn ==
    /\ pc = "start"
    /\ pc' = "main"
    /\ log' = "connection_error"
    /\ cause' = "connect_to_db"
    /\ UNCHANGED <<files, db, run, idx, locals, db0, called, drops, writes,
                   mapper_calls, outcome, reported>>

\* ------------------------------------------------------------------------
\* connect_to_db: the ping succeeds and __main__ goes on, or an exception is
\* caught and exit(1) ends the process.

ConnectOk ==
    /\ pc = "start"
    /\ pc' = "main"
    /\ log' = "connected"
    /\ UNCHANGED <<files, db, run, idx, locals, db0, called, drops, writes,
                   mapper_calls, outcome, reported, cause>>

ConnectFail ==
    /\ pc = "start"
    /\ pc' = "exited"
    /\ log' = "connection_error"
    /\ cause' = "connect_to_db"
    /\ UNCHANGED <<files, db, run, idx, locals, db0, called, drops, writes,
                   mapper_calls, outcome, reported>>

\* ------------------------------------------------------------------------
\* process_file

\* where __main__ is after the call number k returned
AfterCall(k) == IF k < Len(Countries) THEN "main" ELSE "done"

NextCall(k) == IF k < Len(Countries) THEN k + 1 ELSE k

\* FileMissing with a slip: the missing file ends the program
FileMissingExits ==
    /\ pc = "main"
    /\ ~ files[cur].exists
    /\ log' = "file_not_found"
    /\ called' = Append(called, cur)
    /\ outcome' = [outcome EXCEPT ![cur] = "absent"]
    /\ pc' = "exited"
    /\ UNCHANGED <<files, db, run, idx, locals, db0, drops, writes,
                   mapper_calls, reported, cause>>

\* lines 38-40: the file does not exist, the call returns at once
FileMissing ==
    /\ pc = "main"
    /\ ~ files[cur].exists
    /\ log' = "file_not_found"
    /\ called' = Append(called, cur)
    /\ outcome' = [outcome EXCEPT ![cur] = "absent"]
    /\ pc' = AfterCall(idx)
    /\ idx' = NextCall(idx)
    /\ UNCHANGED <<files, db, run, locals, db0, drops, writes, mapper_calls,
                   reported, cause>>

\* Dropped with a slip: the drop is missing, the collection keeps its documents
DroppedNot(coll) == coll

\* collection.drop(): what the collection holds afterwards
Dropped(coll) == <<>>

\* lines 42-50: the collection is dropped, the counters start at 0
FileOpen ==
    /\ pc = "main"
    /\ files[cur].exists
    /\ db' = [db EXCEPT ![cur] = Dropped(@)]
    /\ drops' = [drops EXCEPT ![cur] = @ + 1]
    /\ log' = "processing"
    /\ called' = Append(called, cur)
    /\ pc' = "rows"
    /\ i' = 0
    /\ documents' = <<>>
    /\ processed_count' = 0
    /\ skipped_count' = 0
    /\ mapper_calls' = 0
    /\ UNCHANGED <<files, run, idx, row, doc, db0, writes, outcome, reported,
                   cause>>

\* collection.drop() raises (the server went away): nothing catches it, the
\* process ends; the server may or may not have dropped the collection.
DropFail ==
    /\ pc = "main"
    /\ files[cur].exists
    /\ \E done \in BOOLEAN :
          db' = [db EXCEPT ![cur] = IF done THEN Dropped(@) ELSE @]
    /\ drops' = [drops EXCEPT ![cur] = @ + 1]
    /\ called' = Append(called, cur)
    /\ pc' = "crashed"
    /\ cause' = "drop"
    /\ log' = "traceback"
    /\ UNCHANGED <<files, run, idx, locals, db0, writes, mapper_calls, outcome,
                   reported>>

\* lines 54-63: the mapper returned, or raised and the row is skipped
\*   kind: "doc" (a document is appended) or "skip"
Mapped(m) ==
    IF m.exc = "none"
    THEN [kind |-> "doc", doc |-> m.doc, mapped |-> 1,
          log |-> IF m.warn THEN "warning" ELSE "none"]
    ELSE [kind |-> "skip", doc |-> NoDoc, mapped |-> 1,
          log |-> IF m.exc = "ValueError" THEN "conversion_error"
                  ELSE "unexpected_error"]

\* lines 65-70: the row has an unexpected number of cells
Malformed(r, first) ==
    [kind |-> "skip", doc |-> NoDoc, mapped |-> 0,
     log |-> IF first /\ is_likely_header(r) THEN "likely_header" ELSE "malformed"]

\* lines 53-70: what one row does to the batch and the counters
Classify(c, r, first) ==
    IF Len(r) \in expected_columns_list(c)
    THEN Mapped(field_mapper_func(c, r))
    ELSE Malformed(r, first)

\* the batch after the row
Batch(docs, k) == IF k.kind = "doc" THEN Append(docs, k.doc) ELSE docs

\* BatchFull with a slip: > for >=
BatchOver(docs) == Len(docs) > BatchLimit

\* line 72: the batch is written when it has reached the threshold
BatchFull(docs) == Len(docs) >= BatchLimit

\* the locals and the counters after the row r, classified as k
Counted(r, k) ==
    /\ row' = r
    /\ i' = i + 1
    /\ doc' = IF k.kind = "doc" THEN k.doc ELSE doc
    /\ processed_count' = processed_count + (IF k.kind = "doc" THEN 1 ELSE 0)
    /\ skipped_count' = skipped_count + (IF k.kind = "skip" THEN 1 ELSE 0)
    /\ mapper_calls' = mapper_calls + k.mapped

\* Flushed with a slip: the batch is not reset after the write
FlushedKeeps(docs) ==
    IF BatchFull(docs)
    THEN /\ db' = [db EXCEPT ![cur] = @ \o docs]
         /\ writes' = [writes EXCEPT ![cur] = Append(@, docs)]
         /\ documents' = docs
    ELSE /\ documents' = docs
         /\ UNCHANGED <<db, writes>>

\* lines 72-75, insert_many returning
Flushed(docs) ==
    IF BatchFull(docs)
    THEN /\ db' = [db EXCEPT ![cur] = @ \o docs]
         /\ writes' = [writes EXCEPT ![cur] = Append(@, docs)]
         /\ documents' = <<>>
    ELSE /\ documents' = docs
         /\ UNCHANGED <<db, writes>>

\* lines 72-75, insert_many raising: the server has stored the first n
\* documents of the batch
FlushFailed(docs) ==
    /\ BatchFull(docs)
    /\ documents' = docs
    /\ \E n \in 0..Len(docs) : db' = [db EXCEPT ![cur] = @ \o SubSeq(docs, 1, n)]

Turn(r, k) == Counted(r, k) /\ log' = k.log /\ Flushed(Batch(documents, k))

TurnFailed(r, k) == Counted(r, k) /\ FlushFailed(Batch(documents, k))

\* the row the loop reads next
NextRow == files[cur].rows[i + 1]

\* One turn of the loop of lines 52-75, the insert_many of line 74 returning.
ReadRow ==
    /\ pc = "rows"
    /\ i < Len(files[cur].rows)
    /\ Turn(NextRow, Classify(cur, NextRow, i = 0))
    /\ UNCHANGED <<files, run, pc, idx, db0, called, drops, outcome, reported,
                   cause>>

\* The same turn with insert_many raising: nothing catches it and the
\* process ends.
ReadRowInsertFail ==
    /\ pc = "rows"
    /\ i < Len(files[cur].rows)
    /\ TurnFailed(NextRow, Classify(cur, NextRow, i = 0))
    /\ pc' = "crashed"
    /\ cause' = "insert_many"
    /\ log' = "traceback"
    /\ UNCHANGED <<files, run, idx, db0, called, drops, writes, outcome,
                   reported>>

\* open() or the reading of the next line raises (the file cannot be opened,
\* a byte is not UTF-8): the loop and its with block are in no try block, the
\* process ends.
ReadFail ==
    /\ pc = "rows"
    /\ pc' = "crashed"
    /\ cause' = "read"
    /\ log' = "traceback"
    /\ UNCHANGED <<files, db, run, idx, locals, db0, called, drops, writes,
                   mapper_calls, outcome, reported>>

\* lines 77-84: the rows are read; the rest of the batch is written, the counts
\* are printed and the call returns.
EndOfFile ==
    /\ pc = "rows"
    /\ i = Len(files[cur].rows)
    /\ IF documents # <<>>
       THEN /\ db' = [db EXCEPT ![cur] = @ \o documents]
            /\ writes' = [writes EXCEPT ![cur] = Append(@, documents)]
       ELSE UNCHANGED <<db, writes>>
    /\ log' = "finished"
    /\ reported' = [reported EXCEPT ![cur] = processed_count]
    /\ outcome' = [outcome EXCEPT ![cur] = "loaded"]
    /\ pc' = AfterCall(idx)
    /\ idx' = NextCall(idx)
    /\ i' = 0
    /\ row' = <<>>
    /\ doc' = NoDoc
    /\ documents' = <<>>
    /\ processed_count' = 0
    /\ skipped_count' = 0
    /\ mapper_calls' = 0
    /\ UNCHANGED <<files, run, db0, called, drops, cause>>

\* line 78 raising
EndOfFileInsertFail ==
    /\ pc = "rows"
    /\ i = Len(files[cur].rows)
    /\ documents # <<>>
    /\ \E n \in 0..Len(documents) :
          db' = [db EXCEPT ![cur] = @ \o SubSeq(documents, 1, n)]
    /\ pc' = "crashed"
    /\ cause' = "insert_many"
    /\ log' = "traceback"
    /\ UNCHANGED <<files, run, idx, locals, db0, called, drops, writes,
                   mapper_calls, outcome, reported>>

\* ------------------------------------------------------------------------
\* The program is started again on the same files, after a run that went
\* through: the collections are what that run left.

NoCalls == [c \in CountrySet |-> 0]

Rerun ==
    /\ pc = "done"
    /\ run = "first"
    /\ run' = "second"
    /\ pc' = "start"
    /\ idx' = 1
    /\ db0' = db
    /\ called' = <<>>
    /\ drops' = NoCalls
    /\ writes' = [c \in CountrySet |-> <<>>]
    /\ outcome' = [c \in CountrySet |-> "none"]
    /\ reported' = [c \in CountrySet |-> -1]
    /\ log' = "none"
    /\ UNCHANGED <<files, db, locals, mapper_calls, cause>>

Next ==
    \/ ConnectOk
    \/ ConnectFail
    \/ FileMissing
    \/ FileOpen
    \/ DropFail
    \/ ReadRow
    \/ ReadRowInsertFail
    \/ ReadFail
    \/ EndOfFile
    \/ EndOfFileInsertFail
    \/ Rerun

\* ------------------------------------------------------------------------
\* Input files of the model

c_ab == <<"a", "b">>
c_ba == <<"b", "a">>
c_cab == <<"c", "a", "b">>
c_fin == <<"f", "i", "n">>
c_tin == <<"t", "i", "n">>
c_bay == <<"b", "a", "y">>
c_f == <<"f">>
c_b_a == <<"b", " ", "a">>
c_28 == <<"2", "8">>
c_7 == <<"7">>
c_a1b == <<"a", "1", "b">>
c_4 == <<"4">>
c_4p5 == <<"4", ".", "5">>
c_mp5 == <<"-", ".", "5">>
c_s7s == <<" ", "7", " ">>
c_abc == <<"a", "b", "c">>
c_nan == <<"n", "a", "n">>
c_p4 == <<"+", "4">>
c_dot == <<".">>

\* cells 0..8 of a 12-cell row
Head9(v) ==
    IF v = 1 THEN <<c_ab, c_28, c_cab, c_fin, c_f, c_bay, c_7, <<>>, c_tin>>
    ELSE IF v = 2 THEN <<c_ba, c_a1b, c_b_a, <<>>, <<>>, c_tin, <<>>, c_fin, <<>>>>
    ELSE <<<<>>, <<>>, <<>>, c_fin, c_f, c_bay, c_7, <<>>, <<>>>>

\* cells 0..6 of a 10-cell row
Head7(v) == SubSeq(Head9(v), 1, 7)

Valid12 == Head9(1) \o <<c_4p5, c_mp5, c_4>>
Valid12b == Head9(2) \o <<c_s7s, <<>>, <<>>>>
Valid10 == Head7(2) \o <<c_4p5, <<>>, c_4>>
\* the longitude is not a number
Bad12 == Head9(2) \o <<c_4p5, c_abc, c_4>>
\* three alphabetic cells: the likely header when it is the first row
Header == <<c_cab, c_fin, c_tin>>
\* 11 cells, the second one a number
Short11 == Head9(1) \o <<c_4p5, c_4>>

RowKinds(c) ==
    IF c = "CA" THEN {Valid10, Valid12, Bad12, Header, Short11}
    ELSE {Valid12, Valid12b, Bad12, Header, Short11}

\* every file of at most MaxRows rows of these kinds
LongFiles(c) ==
    UNION {[1..n -> RowKinds(c)] : n \in 0..MaxRows}

NumCells == {<<>>, c_4, c_p4, c_4p5, c_s7s, c_abc, c_nan, c_dot}

\* rows of the country's widths with every combination of numeric cells
RichRows(c) ==
    {Head9(v) \o <<a, b, n>> : v \in 1..3, a \in NumCells, b \in NumCells, n \in NumCells}
    \cup (IF c = "CA"
          THEN {Head7(v) \o <<a, b, n>> :
                    v \in 1..3, a \in NumCells, b \in NumCells, n \in NumCells}
          ELSE {})

\* a document an earlier run left in the country's collection
Stale(c) == field_mapper_func(c, Head9(3) \o <<<<>>, <<>>, <<>>>>).doc

\* the files of a full run: absent, empty, short, or long enough for two batches
SmallFiles(c) ==
    {NoFile, File(<<>>), File(<<Bad12, Valid12>>), File([k \in 1..MaxRows |-> Valid12])}

InitRest ==
    /\ run = "first"
    /\ pc = "start"
    /\ idx = 1
    /\ i = 0
    /\ row = <<>>
    /\ doc = NoDoc
    /\ documents = <<>>
    /\ processed_count = 0
    /\ skipped_count = 0
    /\ log = "none"
    /\ db0 = db
    /\ called = <<>>
    /\ drops = NoCalls
    /\ writes = [c \in CountrySet |-> <<>>]
    /\ mapper_calls = 0
    /\ outcome = [c \in CountrySet |-> "none"]
    /\ reported = [c \in CountrySet |-> -1]
    /\ cause = "none"

\* The whole pipeline: every combination of absent and present files, every
\* combination of empty and non-empty collections.
Init ==
    /\ files \in {f \in [CountrySet -> UNION {SmallFiles(c) : c \in CountrySet}] :
                     \A c \in CountrySet : f[c] \in SmallFiles(c)}
    /\ db \in {d \in [CountrySet -> UNION {{<<>>, <<Stale(c)>>} : c \in CountrySet}] :
                  \A c \in CountrySet : d[c] \in {<<>>, <<Stale(c)>>}}
    /\ InitRest

Spec == Init /\ [][Next]_vars

\* One country's file in detail, the other two files absent: every file of up
\* to MaxRows rows of the country's row kinds, and every one-row file of
\* RichRows.
InitRows ==
    /\ \E c \in CountrySet :
         \E f \in LongFiles(c) \cup {<<r>> : r \in RichRows(c)} :
            files = [x \in CountrySet |-> IF x = c THEN File(f) ELSE NoFile]
    /\ db = [c \in CountrySet |-> <<Stale(c)>>]
    /\ InitRest

SpecRows == InitRows /\ [][Next]_vars

\* ------------------------------------------------------------------------
\* What the claims speak of

\* the acceptable cell counts, as the claims give them
AcceptableCounts(c) == IF c = "CA" THEN {10, 12} ELSE {12}

\* a valid row: an acceptable cell count, and the mapper returns
ValidRow(c, r) ==
    Len(r) \in AcceptableCounts(c) /\ field_mapper_func(c, r).exc = "none"

\* the documents mapped from the valid rows, in file order
RECURSIVE DocsOf(_, _)
DocsOf(c, rows) ==
    IF rows = <<>> THEN <<>>
    ELSE IF ValidRow(c, Head(rows))
    THEN <<field_mapper_func(c, Head(rows)).doc>> \o DocsOf(c, Tail(rows))
    ELSE DocsOf(c, Tail(rows))

Expected(c) == DocsOf(c, files[c].rows)

IsPrefix(a, b) == Len(a) <= Len(b) /\ a = SubSeq(b, 1, Len(a))

RECURSIVE Flatten(_)
Flatten(batches) ==
    IF batches = <<>> THEN <<>> ELSE Head(batches) \o Flatten(Tail(batches))

\* the j-th of the three numeric cells of a 10- or 12-cell row (j = 1, 2, 3)
Num(r, j) == r[Len(r) - 3 + j]

FloatFails(c) == c # <<>> /\ PyFloat(c) = Invalid

IntFails(c) == c # <<>> /\ PyInt(c) = Invalid

\* one of the three numeric cells does not parse
BadNumeric(r) ==
    FloatFails(Num(r, 1)) \/ FloatFails(Num(r, 2)) \/ IntFails(Num(r, 3))

\* process_file has just handled a row, which is in row
RowHandled == pc = "rows" /\ i >= 1

\* the loop is about to read a row
RowAhead == pc = "rows" /\ i < Len(files[cur].rows)

\* this step is a turn of the loop: the reader has yielded NextRow
RowRead == RowAhead /\ i' = i + 1

\* ------------------------------------------------------------------------
\* C1 as stated: once process_file has returned for a country, whether its
\* file exists or not, the collection holds exactly the documents mapped from
\* the valid rows of the file (none when there is no file) and nothing an
\* earlier run left.
C1_AsStated ==
    \A c \in CountrySet : outcome[c] # "none" => db[c] = Expected(c)

\* C1, amended: a collection is written only after its one drop of the run and
\* then holds documents of this run's file only; when process_file returns for
\* a country whose file exists, the collection holds exactly the documents
\* mapped from the valid rows of the file; a country whose file is absent
\* keeps its collection as it was.
C1_FullReplace ==
    \A c \in CountrySet :
        /\ drops[c] <= 1
        /\ db[c] # db0[c] => drops[c] = 1
        /\ writes[c] # <<>> => drops[c] = 1 /\ IsPrefix(db[c], Expected(c))
        /\ outcome[c] = "loaded" => files[c].exists /\ db[c] = Expected(c)
        /\ outcome[c] = "absent" => ~ files[c].exists /\ db[c] = db0[c]

\* a collection that held a document of an earlier run now holds the two
\* batches of this run
C1_Witness ==
    \E c \in CountrySet :
        /\ outcome[c] = "loaded"
        /\ db0[c] # <<>>
        /\ Len(writes[c]) = 2
        /\ db[c] = Expected(c)

\* ------------------------------------------------------------------------
\* C2: when process_file returns for a file whose rows give N documents, it
\* has made ceil(N / BatchLimit) bulk writes, every one but the last of
\* exactly BatchLimit documents, the last of the remainder, and the writes in
\* order are the N documents in file order.  While it runs, every write made
\* so far has exactly BatchLimit documents.
C2_Batches ==
    \A c \in CountrySet :
        /\ outcome[c] = "none" =>
              \A k \in 1..Len(writes[c]) : Len(writes[c][k]) = BatchLimit
        /\ outcome[c] = "loaded" =>
              /\ Len(writes[c]) * BatchLimit >= Len(Expected(c))
              /\ (Len(writes[c]) - 1) * BatchLimit < Len(Expected(c))
              /\ \A k \in 1..Len(writes[c]) :
                    /\ k < Len(writes[c]) => Len(writes[c][k]) = BatchLimit
                    /\ Len(writes[c][k]) \in 1..BatchLimit
              /\ Flatten(writes[c]) = Expected(c)

\* BatchLimit + 1 valid rows: two writes, of BatchLimit documents and of 1
C2_Witness ==
    \E c \in CountrySet :
        /\ outcome[c] = "loaded"
        /\ Len(Expected(c)) = BatchLimit + 1
        /\ Len(writes[c]) = 2
        /\ Len(writes[c][1]) = BatchLimit
        /\ Len(writes[c][2]) = 1

\* ------------------------------------------------------------------------
\* C3 as stated: after a Canada row of 10 or 12 cells one of whose numeric
\* cells does not parse, the row is counted as processed and its document has
\* latitude, longitude and accuracy all absent, the other fields being those
\* of the cells.
C3_AsStated ==
    (RowHandled /\ cur = "CA" /\ Len(row) \in {10, 12} /\ BadNumeric(row)) =>
        /\ log = "warning"
        /\ documents # <<>> \/ writes[cur] # <<>>
        /\ doc # NoDoc
        /\ doc.country_code = Str(Cell(row, 0))
        /\ doc.postal_code = Str(Cell(row, 1))
        /\ doc.place_name = Str(Cell(row, 2))
        /\ doc.admin1_name = OptStr(Cell(row, 3))
        /\ doc.admin2_name = OptStr(Cell(row, 5))
        /\ doc.latitude = None
        /\ doc.longitude = None
        /\ doc.accuracy = None

\* ------------------------------------------------------------------------
\* C4 as stated: after any 12-cell row of the Spain or US file, the mapper has
\* returned a document whose country_code, postal_code and place_name are
\* cells 0, 1 and 2.
C4_AsStated ==
    (RowHandled /\ cur \in {"ES", "US"} /\ Len(row) = 12) =>
        /\ log = "none"
        /\ doc # NoDoc
        /\ doc.country_code = Str(Cell(row, 0))
        /\ doc.postal_code = Str(Cell(row, 1))
        /\ doc.place_name = Str(Cell(row, 2))

\* C4, amended: after a 12-cell row of the Spain or US file whose three
\* numeric cells are each empty or parsable, the mapper has returned a
\* document whose country_code, postal_code and place_name are cells 0, 1 and
\* 2 as they are; after any other 12-cell row the mapper has raised ValueError
\* and returned no document.
C4_Verbatim ==
    (RowHandled /\ cur \in {"ES", "US"} /\ Len(row) = 12) =>
        IF BadNumeric(row)
        THEN log = "conversion_error" /\ processed_count < i
        ELSE /\ log = "none"
             /\ doc # NoDoc
             /\ doc.country_code = Str(Cell(row, 0))
             /\ doc.postal_code = Str(Cell(row, 1))
             /\ doc.place_name = Str(Cell(row, 2))

\* a US row with all three numbers was mapped
C4_Witness ==
    /\ RowHandled
    /\ cur = "US"
    /\ Len(row) = 12
    /\ Num(row, 1) # <<>> /\ Num(row, 2) # <<>> /\ Num(row, 3) # <<>>
    /\ log = "none"
    /\ doc # NoDoc
    /\ doc.postal_code = Str(c_a1b)

\* ------------------------------------------------------------------------
\* C5: a row read whose cell count is not acceptable for the country adds no
\* document, adds exactly 1 to the skipped count, is not given to the mapper,
\* and leaves the loop running, as the first row that looks like a header or
\* as any other row.
C5_Step ==
    (RowRead /\ Len(NextRow) \notin AcceptableCounts(cur)) =>
        /\ pc' = "rows"
        /\ documents' = documents
        /\ db' = db
        /\ writes' = writes
        /\ processed_count' = processed_count
        /\ skipped_count' = skipped_count + 1
        /\ mapper_calls' = mapper_calls
        /\ log' = (IF i = 0 /\ is_likely_header(NextRow)
                   THEN "likely_header" ELSE "malformed")

\* C5: every turn of the loop on a row of a wrong cell count is such a step
C5_WrongCountSkipped == [][C5_Step]_vars

\* the Canada file began with a header row and an 11-cell row: both skipped
C5_Witness ==
    /\ pc = "rows"
    /\ cur = "CA"
    /\ i = 2
    /\ files[cur].rows[1] = Header
    /\ Len(row) = 11
    /\ log = "malformed"
    /\ skipped_count = 2
    /\ processed_count = 0
    /\ mapper_calls = 0

\* ------------------------------------------------------------------------
\* C6: with the Spain or US mapper, a 12-cell row one of whose numeric cells
\* is not empty and does not parse adds nothing to the pending batch, adds 1
\* to the skipped count, leaves the processed count, and the loop goes on.
C6_Step ==
    (RowRead /\ cur \in {"ES", "US"} /\ Len(NextRow) = 12 /\ BadNumeric(NextRow)) =>
        /\ pc' = "rows"
        /\ documents' = documents
        /\ db' = db
        /\ writes' = writes
        /\ processed_count' = processed_count
        /\ skipped_count' = skipped_count + 1
        /\ log' = "conversion_error"

\* C6: every turn of the loop on such a row is such a step
C6_BadNumberSkipped == [][C6_Step]_vars

\* the row after a skipped one was mapped
C6_Witness ==
    /\ pc = "rows"
    /\ cur = "US"
    /\ i = 2
    /\ files[cur].rows[1] = Bad12
    /\ skipped_count = 1
    /\ processed_count = 1
    /\ Len(documents) = 1

\* ------------------------------------------------------------------------
\* C7: when the second run on the same files has gone through, every
\* collection is what the first run left.
C7_Idempotent == (run = "second" /\ pc = "done") => db = db0

\* the second run has reloaded a file of more than one batch
C7_Witness ==
    /\ run = "second"
    /\ pc = "done"
    /\ \E c \in CountrySet : outcome[c] = "loaded" /\ Len(db[c]) > BatchLimit

\* ------------------------------------------------------------------------
\* C8: process_file is called for Spain, US, Canada in that order, one call
\* at a time; a call for an absent file returns with the collection as it
\* was, nothing dropped, nothing written and nothing counted, and the next
\* call follows; a run never stops at an absent file.
C8_OrderAndMissing ==
    /\ \A k \in 1..Len(called) : k <= Len(Countries) /\ called[k] = Countries[k]
    /\ pc = "main" => Len(called) = idx - 1
    /\ pc = "rows" => Len(called) = idx
    /\ pc = "done" => called = Countries
    /\ pc = "exited" => called = <<>>
    /\ pc = "crashed" => files[cur].exists /\ Len(called) = idx
    /\ \A c \in CountrySet :
          outcome[c] = "absent" =>
              /\ ~ files[c].exists
              /\ db[c] = db0[c]
              /\ drops[c] = 0
              /\ writes[c] = <<>>
              /\ reported[c] = -1
    /\ \A k \in 1..Len(called) :
          (k < Len(called) \/ pc \in {"main", "done"}) =>
              outcome[called[k]] = (IF files[called[k]].exists
                                    THEN "loaded" ELSE "absent")

\* Spain and US absent, Canada loaded over what it held
C8_Witness ==
    /\ pc = "done"
    /\ outcome["ES"] = "absent"
    /\ outcome["US"] = "absent"
    /\ outcome["CA"] = "loaded"
    /\ db["ES"] # <<>>
    /\ db["CA"] # <<>>

\* ------------------------------------------------------------------------
\* C9 as stated: a run that stopped early stopped in connect_to_db, before
\* any call of process_file, with nothing dropped and nothing written.
C9_AsStated ==
    pc \in {"exited", "crashed"} =>
        /\ pc = "exited"
        /\ called = <<>>
        /\ db = db0
        /\ drops = NoCalls

\* C9, amended: a run stops early either in connect_to_db, before any call of
\* process_file, with nothing dropped and nothing written, or by an exception
\* of collection.drop, of the reading of the file or of insert_many inside
\* process_file for a file that exists, which nothing catches; nothing else
\* stops a run.
C9_EarlyStops ==
    /\ pc = "exited" =>
          /\ cause = "connect_to_db"
          /\ called = <<>>
          /\ db = db0
          /\ drops = NoCalls
          /\ \A c \in CountrySet : writes[c] = <<>>
    /\ pc = "crashed" =>
          /\ cause \in {"drop", "read", "insert_many"}
          /\ called # <<>>
          /\ files[cur].exists
          /\ outcome[cur] = "none"
    /\ pc \notin {"exited", "crashed"} => cause = "none"

\* the connection failed with all three files there and all collections full
C9_Witness ==
    /\ pc = "exited"
    /\ \A c \in CountrySet : files[c].exists /\ db[c] # <<>>

\* ------------------------------------------------------------------------
\* C10: while process_file reads, processed + skipped is the number of rows
\* read, and the documents written plus those pending are the processed ones;
\* when it returns, the collection holds as many documents as the count it
\* prints; every row read adds 1 to exactly one of the two counters.
C10_Counts ==
    /\ pc = "rows" =>
          /\ processed_count + skipped_count = i
          /\ Len(db[cur]) + Len(documents) = processed_count
          /\ Len(Flatten(writes[cur])) = Len(db[cur])
          /\ Len(documents) < BatchLimit
    /\ \A c \in CountrySet : outcome[c] = "loaded" => Len(db[c]) = reported[c]

C10_Step ==
    RowRead =>
        \/ processed_count' = processed_count + 1 /\ skipped_count' = skipped_count
        \/ processed_count' = processed_count /\ skipped_count' = skipped_count + 1

\* C10: the counts agree in every state and every step counts a row once
C10_Accounting == []C10_Counts /\ [][C10_Step]_vars

\* a batch written, a row skipped, the next batch begun
C10_Witness ==
    /\ pc = "rows"
    /\ skipped_count >= 1
    /\ Len(db[cur]) = BatchLimit
    /\ processed_count = BatchLimit

====
